---- MODULE Spec2Model ----
(***************************************************************************)
(* Model of the deduplicating file vault (backend/files).                  *)
(*                                                                         *)
(* State: the File table, the blob store behind default_storage, and one   *)
(* request handler per worker.  Every SQL statement and every blob-store   *)
(* call of a handler is one step, so that handlers of different workers    *)
(* interleave exactly where the code (autocommit, no transaction around a  *)
(* request) lets them.  The sequential specifications run the same steps   *)
(* with one request in flight at a time.                                   *)
(***************************************************************************)
EXTENDS Integers, FiniteSets, Sequences, TLC

\* ---- bounds -------------------------------------------------------------
NumWorkers == 2      \* request handlers that may run at the same time
MaxFiles == 3        \* rows INSERTed in one behaviour
NumContents == 2     \* distinct byte contents that are uploaded
MaxSize == 1         \* caller-declared sizes range over 0..MaxSize
MaxUpdates == 1      \* PATCH requests accepted in one behaviour

Workers == 1..NumWorkers
Contents == 1..NumContents
Sizes == 0..MaxSize
Ids == 1..MaxFiles
Paths == 1..MaxFiles

\* ---- values -------------------------------------------------------------
NULL == 0            \* a null foreign key / "no row"
EmptyHash == 0       \* content_hash = '' (blank=True)

VARIABLES
    files,      \* the File table: primary key -> row
    blobs,      \* default_storage: storage path -> content held there
    nextId,     \* advanced by every INSERT: the fresh primary key (uuid4) of
                \* a new instance and the auto_now_add time of the INSERT
    nextPath,   \* source of fresh storage names (uuid4 in file_upload_path)
    pc,         \* position of each worker's handler
    loc,        \* the in-memory objects of each worker's handler
    response,   \* the answer sent by the step just taken, "none" when the
                \* step answered no request
    updates     \* PATCH requests accepted so far

vars == <<files, blobs, nextId, nextPath, pc, loc, response, updates>>

\* A row of the File table (models.File).
File(path, size, now, hash, ref, dup, actual) ==
    [file |-> path, size |-> size, uploaded_at |-> now, content_hash |-> hash,
     reference_file |-> ref, is_duplicate |-> dup, actual_size |-> actual,
     reference_count |-> 1]

\* file_upload_path: a fresh uuid4 name under uploads/.
file_upload_path == nextPath

\* SHA-256 hexdigest of a content: never blank, distinct contents have
\* distinct digests.
_calculate_file_hash(c) == 100 + c

\* The rows a queryset filter selects.
NonDuplicatesWithHash(h) ==
    {i \in DOMAIN files : files[i].content_hash = h /\ ~files[i].is_duplicate}

\* Meta.ordering = ['-uploaded_at']: .first() of an unordered queryset is the
\* row uploaded last.
FirstByMetaOrdering(S) ==
    IF S = {} THEN NULL
    ELSE CHOOSE i \in S : \A j \in S : files[j].uploaded_at <= files[i].uploaded_at

\* find_duplicate with the flag of the filter inverted: it looks among the
\* duplicates.
find_duplicate_among_duplicates(file_hash) ==
    FirstByMetaOrdering({i \in DOMAIN files :
        files[i].content_hash = file_hash /\ files[i].is_duplicate})

\* find_duplicate without the is_duplicate=False filter: any row with the hash.
find_duplicate_any_row(file_hash) ==
    FirstByMetaOrdering({i \in DOMAIN files : files[i].content_hash = file_hash})

\* File.find_duplicate
find_duplicate(file_hash) == FirstByMetaOrdering(NonDuplicatesWithHash(file_hash))

\* The rows whose reference_file is i (related_name='duplicates').
duplicates(i) == {d \in DOMAIN files : files[d].reference_file = i}

\* "No row": what a handler holds where it has loaded nothing.
NoRow == File(NULL, 0, 0, EmptyHash, NULL, FALSE, 0)

\* In-memory state of a handler that is not running.
\*   target    primary key named by the request (destroy, partial_update)
\*   content   bytes of the uploaded file
\*   size      validated_data['size']
\*   hash      file_hash
\*   existing  primary key of existing_file, NULL when there is none
\*   rec       the instance the handler loaded or is building
\*   orig      the loaded reference_file / existing_file object
NoLoc == [target |-> NULL, content |-> 0, size |-> 0, hash |-> EmptyHash,
          existing |-> NULL, rec |-> NoRow, orig |-> NoRow]

Init ==
    /\ files = <<>>
    /\ blobs = <<>>
    /\ nextId = 1
    /\ nextPath = 1
    /\ pc = [p \in Workers |-> "idle"]
    /\ loc = [p \in Workers |-> NoLoc]
    /\ response = "none"
    /\ updates = 0

\* Ingests begun whose row is not inserted yet.
PendingIngests ==
    Cardinality({q \in Workers : pc[q] \in {"create_dup", "create_store", "create_insert"}})

\* Ingests begun that have yet to store their bytes under a fresh name.
PendingStores == Cardinality({q \in Workers : pc[q] = "create_store"})

\* No request is in progress.
AllIdle == \A p \in Workers : pc[p] = "idle"

\* A worker that is not inside a request takes the next one.
Accepts(p) == pc[p] = "idle"

Finish(p, r) ==
    /\ pc' = [pc EXCEPT ![p] = "idle"]
    /\ loc' = [loc EXCEPT ![p] = NoLoc]
    /\ response' = r

Goto(p, label, l) ==
    /\ pc' = [pc EXCEPT ![p] = label]
    /\ loc' = [loc EXCEPT ![p] = l]
    /\ response' = "none"

\* INSERT / DELETE / UPDATE of one row.
Insert(i, row) == files' = (i :> row) @@ files
Remove(T, i) == [j \in DOMAIN T \ {i} |-> T[j]]

\* ---- FileViewSet.create -> FileSerializer.create ------------------------

\* DuplicateInstance without line 55: the instance keeps the upload as its
\* file, to be stored under a fresh name.
DuplicateInstance_own_file(l) ==
    File(file_upload_path, l.size, 0, l.hash, l.existing, TRUE, 0)

\* DuplicateInstance with line 52 setting actual_size to the declared size.
DuplicateInstance_full_actual_size(l) ==
    File(l.orig.file, l.size, 0, l.hash, l.existing, TRUE, l.size)

\* The instance built for an upload found to be a duplicate (serializers.py
\* 40-55): it shares the original's file, occupies no space.
DuplicateInstance(l) ==
    File(l.orig.file, l.size, 0, l.hash, l.existing, TRUE, 0)

\* OriginalInstance without line 66: actual_size keeps its default 0.
OriginalInstance_default_actual_size(l) ==
    File(NULL, l.size, 0, l.hash, NULL, FALSE, 0)

\* The instance built for new content (serializers.py 40-46, 66).
OriginalInstance(l) ==
    File(NULL, l.size, 0, l.hash, NULL, FALSE, l.size)

\* Reading the upload fails in _calculate_file_hash: the ValidationError
\* leaves create() and the view answers 500.
create_hash_fails(p) ==
    /\ Accepts(p)
    /\ Finish(p, "error")
    /\ UNCHANGED <<files, blobs, nextId, nextPath, updates>>

\* serializers.py 31-46: hash the upload, look for an existing non-duplicate
\* with that hash (one SELECT), build the instance.
create_lookup(p, c, s) ==
    /\ Accepts(p)
    /\ (nextId - 1) + PendingIngests < MaxFiles
    /\ (nextPath - 1) + PendingStores < MaxFiles
    /\ LET file_hash == _calculate_file_hash(c)
           existing_file == find_duplicate(file_hash)
           l == [NoLoc EXCEPT !.content = c, !.size = s, !.hash = file_hash,
                              !.existing = existing_file,
                              !.orig = IF existing_file = NULL THEN NoRow
                                       ELSE files[existing_file]]
       IN IF existing_file # NULL
          THEN Goto(p, "create_dup", [l EXCEPT !.rec = DuplicateInstance(l)])
          ELSE Goto(p, "create_store", [l EXCEPT !.rec = OriginalInstance(l)])
    /\ UNCHANGED <<files, blobs, nextId, nextPath, updates>>

\* serializers.py 56, duplicate branch: file_instance.save() INSERTs the row
\* (the file is already committed, nothing is written to storage).  The
\* foreign key is checked by the database: when existing_file's row is gone
\* the INSERT raises IntegrityError and the upload fails.
create_dup_save(p) ==
    /\ pc[p] = "create_dup"
    /\ IF loc[p].existing \in DOMAIN files
       THEN /\ Insert(nextId, [loc[p].rec EXCEPT !.uploaded_at = nextId])
            /\ nextId' = nextId + 1
            /\ Goto(p, "signal", loc[p])
       ELSE /\ Finish(p, "error")
            /\ UNCHANGED <<files, nextId>>
    /\ UNCHANGED <<blobs, nextPath, updates>>

\* serializers.py 67, first half: FileField.pre_save writes the upload to
\* storage under a fresh name.
create_store(p) ==
    /\ pc[p] = "create_store"
    /\ blobs' = (file_upload_path :> loc[p].content) @@ blobs
    /\ nextPath' = nextPath + 1
    /\ Goto(p, "create_insert", [loc[p] EXCEPT !.rec.file = file_upload_path])
    /\ UNCHANGED <<files, nextId, updates>>

\* create_store_fails with the storage exception swallowed: the row is
\* inserted without its bytes.
create_store_fails_swallowed(p) ==
    /\ pc[p] = "create_store"
    /\ Goto(p, "create_insert", [loc[p] EXCEPT !.rec.file = file_upload_path])
    /\ UNCHANGED <<files, blobs, nextId, nextPath, updates>>

\* serializers.py 67, first half, when storage raises while writing the
\* upload: no INSERT follows, create() turns the exception into a
\* ValidationError (70-75) and the view answers 500 (views.py 147-149).
create_store_fails(p) ==
    /\ pc[p] = "create_store"
    /\ Finish(p, "error")
    /\ UNCHANGED <<files, blobs, nextId, nextPath, updates>>

\* serializers.py 67, second half: the INSERT of the non-duplicate row.  The
\* post_save receiver does nothing for it.
create_insert(p) ==
    /\ pc[p] = "create_insert"
    /\ Insert(nextId, [loc[p].rec EXCEPT !.uploaded_at = nextId])
    /\ nextId' = nextId + 1
    /\ Finish(p, "ok")
    /\ UNCHANGED <<blobs, nextPath, updates>>

\* update_file_references without the increment: the receiver returns at once.
update_file_references_no_increment(p) ==
    /\ pc[p] = "signal"
    /\ Finish(p, "ok")
    /\ UNCHANGED <<files, blobs, nextId, nextPath, updates>>

\* models.py 290-301, post_save receiver after the INSERT of a duplicate:
\* original.reference_count += 1 on the object loaded by find_duplicate, then
\* UPDATE ... SET reference_count.  When the row is gone the UPDATE touches
\* no row, save() raises DatabaseError and the receiver swallows it.
update_file_references(p) ==
    /\ pc[p] = "signal"
    /\ LET original == loc[p].existing
       IN files' = IF original \in DOMAIN files
                   THEN [files EXCEPT ![original].reference_count =
                                          loc[p].orig.reference_count + 1]
                   ELSE files
    /\ Finish(p, "ok")
    /\ UNCHANGED <<blobs, nextId, nextPath, updates>>

\* ---- FileViewSet.destroy -> File.delete ---------------------------------

\* get_object(): one SELECT with select_related('reference_file') loads the
\* instance together with its original.  An unknown key answers 404.
destroy_load(p, i) ==
    /\ Accepts(p)
    /\ i \in 1..(nextId - 1)
    /\ IF i \in DOMAIN files
       THEN LET rec == files[i]
                l == [NoLoc EXCEPT !.target = i, !.rec = rec,
                                   !.orig = IF rec.reference_file = NULL THEN NoRow
                                            ELSE files[rec.reference_file]]
            IN Goto(p, "delete", l)
       ELSE Finish(p, "not_found")
    /\ UNCHANGED <<files, blobs, nextId, nextPath, updates>>

\* delete_decrement without the "reference_count > 0" test of line 155.
delete_decrement_unguarded(p) ==
    /\ pc[p] = "delete"
    /\ loc[p].rec.is_duplicate /\ loc[p].rec.reference_file # NULL
    /\ LET original == loc[p].rec.reference_file
       IN IF original \in DOMAIN files
          THEN /\ files' = [files EXCEPT ![original].reference_count =
                                             loc[p].orig.reference_count - 1]
               /\ Goto(p, "delete_row", loc[p])
          ELSE /\ Finish(p, "error")
               /\ UNCHANGED files
    /\ UNCHANGED <<blobs, nextId, nextPath, updates>>

\* delete_decrement without lines 155-157: the duplicate's row is removed
\* and the original's count is left as it is.
delete_decrement_skipped(p) ==
    /\ pc[p] = "delete"
    /\ loc[p].rec.is_duplicate /\ loc[p].rec.reference_file # NULL
    /\ Goto(p, "delete_row", loc[p])
    /\ UNCHANGED <<files, blobs, nextId, nextPath, updates>>

\* delete_decrement with line 159 an "if" instead of an "elif": the storage
\* branch is entered after the decrement.
delete_decrement_then_file(p) ==
    /\ pc[p] = "delete"
    /\ loc[p].rec.is_duplicate /\ loc[p].rec.reference_file # NULL
    /\ LET original == loc[p].rec.reference_file
       IN IF loc[p].orig.reference_count > 0 /\ original \in DOMAIN files
          THEN files' = [files EXCEPT ![original].reference_count =
                                          loc[p].orig.reference_count - 1]
          ELSE UNCHANGED files
    /\ Goto(p, "delete_file", loc[p])
    /\ UNCHANGED <<blobs, nextId, nextPath, updates>>

\* models.py 152-158: a duplicate with a reference_file.  The count held by
\* the loaded original is lowered (not below 0) and written back with
\* UPDATE ... SET reference_count.  When the original's row is gone save()
\* raises DatabaseError, delete() re-raises it and the row is kept.
delete_decrement(p) ==
    /\ pc[p] = "delete"
    /\ loc[p].rec.is_duplicate /\ loc[p].rec.reference_file # NULL
    /\ LET original == loc[p].rec.reference_file
       IN IF loc[p].orig.reference_count > 0
          THEN IF original \in DOMAIN files
               THEN /\ files' = [files EXCEPT ![original].reference_count =
                                                  loc[p].orig.reference_count - 1]
                    /\ Goto(p, "delete_row", loc[p])
               ELSE /\ Finish(p, "error")
                    /\ UNCHANGED files
          ELSE /\ Goto(p, "delete_row", loc[p])
               /\ UNCHANGED files
    /\ UNCHANGED <<blobs, nextId, nextPath, updates>>

\* delete_check_duplicates without the duplicates.exists() test of line 163.
delete_check_duplicates_ignored(p) ==
    /\ pc[p] = "delete"
    /\ ~loc[p].rec.is_duplicate
    /\ Goto(p, "delete_file", loc[p])
    /\ UNCHANGED <<files, blobs, nextId, nextPath, updates>>

\* models.py 159-165: a non-duplicate; duplicates.exists() is one SELECT.
\* With duplicates only a warning is logged; without, the file is removed
\* from storage next.
delete_check_duplicates(p) ==
    /\ pc[p] = "delete"
    /\ ~loc[p].rec.is_duplicate
    /\ IF duplicates(loc[p].target) # {}
       THEN Goto(p, "delete_row", loc[p])
       ELSE Goto(p, "delete_file", loc[p])
    /\ UNCHANGED <<files, blobs, nextId, nextPath, updates>>

\* models.py 152, 159: a duplicate whose reference_file is null takes neither
\* branch.
delete_unreferenced_duplicate(p) ==
    /\ pc[p] = "delete"
    /\ loc[p].rec.is_duplicate /\ loc[p].rec.reference_file = NULL
    /\ Goto(p, "delete_row", loc[p])
    /\ UNCHANGED <<files, blobs, nextId, nextPath, updates>>

\* models.py 168-173: default_storage.exists / default_storage.delete.
delete_file(p) ==
    /\ pc[p] = "delete_file"
    /\ blobs' = IF loc[p].rec.file \in DOMAIN blobs
                THEN Remove(blobs, loc[p].rec.file)
                ELSE blobs
    /\ Goto(p, "delete_row", loc[p])
    /\ UNCHANGED <<files, nextId, nextPath, updates>>

\* delete_file_fails without the try/except of lines 167-173: the storage
\* exception reaches the outer handler, which re-raises it (178-180).
delete_file_fails_raises(p) ==
    /\ pc[p] = "delete_file"
    /\ Finish(p, "error")
    /\ UNCHANGED <<files, blobs, nextId, nextPath, updates>>

\* models.py 167-173 when default_storage.exists or default_storage.delete
\* raises: the exception is logged (172-173), the bytes stay, and the handler
\* goes on to super().delete().
delete_file_fails(p) ==
    /\ pc[p] = "delete_file"
    /\ Goto(p, "delete_row", loc[p])
    /\ UNCHANGED <<files, blobs, nextId, nextPath, updates>>

\* on_delete=SET_NULL: the rows that reference i lose their reference.
SetNull(T, i) ==
    [j \in DOMAIN T |-> IF T[j].reference_file = i
                        THEN [T[j] EXCEPT !.reference_file = NULL]
                        ELSE T[j]]

\* models.py 176, super().delete(): the collector, in one transaction, nulls
\* the reference_file of the rows that point here and DELETEs the row.
delete_row(p) ==
    /\ pc[p] = "delete_row"
    /\ files' = Remove(SetNull(files, loc[p].target), loc[p].target)
    /\ Finish(p, "ok")
    /\ UNCHANGED <<blobs, nextId, nextPath, updates>>

\* ---- FileViewSet.partial_update -> ModelSerializer.update -> File.save ---

\* get_object() for PATCH {size: s}.
update_load(p, i, s) ==
    /\ Accepts(p)
    /\ updates < MaxUpdates
    /\ updates' = updates + 1
    /\ i \in 1..(nextId - 1)
    /\ IF i \in DOMAIN files
       THEN LET rec == files[i]
                l == [NoLoc EXCEPT !.target = i, !.size = s, !.rec = rec,
                                   !.existing = rec.reference_file,
                                   !.orig = IF rec.reference_file = NULL THEN NoRow
                                            ELSE files[rec.reference_file]]
            IN Goto(p, "update_save", l)
       ELSE Finish(p, "not_found")
    /\ UNCHANGED <<files, blobs, nextId, nextPath>>

\* models.py 99-145 on a loaded instance: pk is set, so the duplicate check is
\* skipped and super().save() writes every field of the in-memory instance.
save(rec, size) == [rec EXCEPT !.size = size]

\* instance.size = s; instance.save(): UPDATE of all columns from the loaded
\* instance; when no row has the key any more, Django INSERTs it (and the
\* post_save receiver sees created=True).  The foreign key is checked.
update_save(p) ==
    /\ pc[p] = "update_save"
    /\ LET i == loc[p].target
           rec == save(loc[p].rec, loc[p].size)
       IN IF rec.reference_file # NULL /\ rec.reference_file \notin DOMAIN files
          THEN /\ Finish(p, "error")
               /\ UNCHANGED <<files, nextId>>
          ELSE IF i \in DOMAIN files
          THEN /\ files' = [files EXCEPT ![i] = rec]
               /\ Finish(p, "ok")
               /\ UNCHANGED nextId
          ELSE /\ (nextId - 1) + PendingIngests < MaxFiles
               /\ Insert(i, [rec EXCEPT !.uploaded_at = nextId])
               /\ nextId' = nextId + 1
               /\ IF rec.is_duplicate /\ rec.reference_file # NULL
                  THEN Goto(p, "signal", loc[p])
                  ELSE Finish(p, "ok")
    /\ UNCHANGED <<blobs, nextPath, updates>>

\* ---- FileViewSet.stats, File.get_total_storage_saved -----------------------

\* Sum('size') and Sum('actual_size') over a queryset (views.py 179-184); the
\* "or 0" of lines 186-187 is the sum over no row.
RECURSIVE SumSize(_)
SumSize(S) ==
    IF S = {} THEN 0
    ELSE LET i == CHOOSE x \in S : TRUE
         IN files[i].size + SumSize(S \ {i})

RECURSIVE SumActualSize(_)
SumActualSize(S) ==
    IF S = {} THEN 0
    ELSE LET i == CHOOSE x \in S : TRUE
         IN files[i].actual_size + SumActualSize(S \ {i})

\* views.py 186-188: storage_saved of the stats over all rows.
stats_storage_saved == SumSize(DOMAIN files) - SumActualSize(DOMAIN files)

\* models.py 258-263: the storage_saved property of one row.
storage_saved(row) ==
    IF row.is_duplicate THEN row.size - row.actual_size ELSE 0

\* models.py 265-269: sum of storage_saved over filter(is_duplicate=True).
RECURSIVE SumStorageSaved(_)
SumStorageSaved(S) ==
    IF S = {} THEN 0
    ELSE LET i == CHOOSE x \in S : TRUE
         IN storage_saved(files[i]) + SumStorageSaved(S \ {i})

get_total_storage_saved ==
    SumStorageSaved({i \in DOMAIN files : files[i].is_duplicate})

\* ---- File.update_reference_counts -----------------------------------------

\* reference_count is a PositiveIntegerField: any count from 0 up.
Counts == 0..(MaxFiles + 1)

\* A write from outside the request handlers (admin, shell, repair script)
\* that leaves a non-duplicate row with an arbitrary reference_count.
corrupt_reference_count(i, n) ==
    /\ AllIdle
    /\ i \in DOMAIN files
    /\ ~files[i].is_duplicate
    /\ files[i].reference_count # n
    /\ files' = [files EXCEPT ![i].reference_count = n]
    /\ response' = "none"
    /\ UNCHANGED <<blobs, nextId, nextPath, pc, loc, updates>>

\* recount without the "+ 1 for the original itself" of line 281.
recount_without_self(T, original) ==
    [T EXCEPT ![original].reference_count =
        Cardinality({j \in DOMAIN T : T[j].reference_file = original})]

\* models.py 278-282, one turn of the loop: count the rows that reference
\* the original, UPDATE ... SET reference_count = count + 1.
recount(T, original) ==
    [T EXCEPT ![original].reference_count =
        Cardinality({j \in DOMAIN T : T[j].reference_file = original}) + 1]

\* models.py 276-282: the loop over filter(is_duplicate=False).
RECURSIVE recount_loop(_, _)
recount_loop(T, originals) ==
    IF originals = {} THEN T
    ELSE LET original == CHOOSE x \in originals : TRUE
         IN recount_loop(recount(T, original), originals \ {original})

\* models.py 271-286 run to its end with no other request in progress.
update_reference_counts(p) ==
    /\ AllIdle
    /\ files' = recount_loop(files, {i \in DOMAIN files : ~files[i].is_duplicate})
    /\ Finish(p, "recounted")
    /\ UNCHANGED <<blobs, nextId, nextPath, updates>>

\* ---- File.save on a new instance, File.calculate_hash, maintenance ----------

\* models.py 99-145 on an instance built by File(file=upload, size=s): the
\* UUID default has set pk already, so is_new is False, lines 109-142 are
\* skipped and super().save() stores the upload and INSERTs the row as built,
\* with content_hash '' and actual_size 0 (the steps create_store and
\* create_insert).
save_new_instance(p, c, s) ==
    /\ Accepts(p)
    /\ (nextId - 1) + PendingIngests < MaxFiles
    /\ (nextPath - 1) + PendingStores < MaxFiles
    /\ Goto(p, "create_store",
            [NoLoc EXCEPT !.content = c, !.size = s,
                          !.rec = File(NULL, s, 0, EmptyHash, NULL, FALSE, 0)])
    /\ UNCHANGED <<files, blobs, nextId, nextPath, updates>>

\* models.py 94: the digest of "<original_filename>_<size>_<uuid4>", a value
\* that is the digest of no content.
fallback_hash(i) == 200 + i

\* models.py 41-97 on row i: the digest of the stored bytes, or, when
\* reading them raises, the fallback of lines 91-97.  The result is also
\* assigned to self.content_hash.
calculate_hash(i, readable) ==
    IF readable /\ files[i].file \in DOMAIN blobs
    THEN _calculate_file_hash(blobs[files[i].file])
    ELSE fallback_hash(i)

\* models.py 224-257 with no other request in progress: every row without a
\* content_hash gets calculate_hash() and save(update_fields=['content_hash']);
\* the second loop only logs.  R is the set of rows whose bytes can be read.
recheck_duplicates(p, R) ==
    /\ AllIdle
    /\ files' = [i \in DOMAIN files |->
                   IF files[i].content_hash = EmptyHash
                   THEN [files[i] EXCEPT !.content_hash = calculate_hash(i, i \in R)]
                   ELSE files[i]]
    /\ Finish(p, "rechecked")
    /\ UNCHANGED <<blobs, nextId, nextPath, updates>>

\* models.py 202-222 on row i: compares the hash of the row with the hash of
\* its reference_file, computing in memory the ones that are empty; nothing
\* is saved.
verify_duplicate_status(p, i, R) ==
    /\ AllIdle
    /\ i \in DOMAIN files
    /\ LET rec == files[i]
           ref == rec.reference_file
           HashOf(j) == IF files[j].content_hash # EmptyHash
                        THEN files[j].content_hash
                        ELSE calculate_hash(j, j \in R)
       IN IF ~rec.is_duplicate \/ ref = NULL
          THEN Finish(p, "verified")
          ELSE IF HashOf(i) # HashOf(ref)
          THEN Finish(p, "mismatch")
          ELSE Finish(p, "verified")
    /\ UNCHANGED <<files, blobs, nextId, nextPath, updates>>

\* ---- bytes held by the blob store ------------------------------------------

\* file_obj.size, the number of bytes of an upload with content c (views.py
\* 116 takes it as the size when the request declares none).  An upload is
\* not empty (FileField rejects an empty file).
content_length(c) == IF c <= MaxSize THEN c ELSE MaxSize

\* Total bytes of the blobs stored under the paths of S.
RECURSIVE SumBlobBytes(_)
SumBlobBytes(S) ==
    IF S = {} THEN 0
    ELSE LET f == CHOOSE x \in S : TRUE
         IN content_length(blobs[f]) + SumBlobBytes(S \ {f})

\* ---- crashes and swallowed failures ----------------------------------------

\* The process dies inside a request: every statement already executed stays
\* (autocommit; File.delete and the ingest open no transaction), the rest of
\* the handler never runs.
crash(p) ==
    /\ pc[p] # "idle"
    /\ Finish(p, "crash")
    /\ UNCHANGED <<files, blobs, nextId, nextPath, updates>>

\* models.py 297-301: original.save() raises in the post_save receiver; the
\* exception is logged and swallowed, the upload answers 201.
update_file_references_fails(p) ==
    /\ pc[p] = "signal"
    /\ Finish(p, "ok")
    /\ UNCHANGED <<files, blobs, nextId, nextPath, updates>>

\* ---- specifications -------------------------------------------------------

Ingest(p) ==
    \/ \E c \in Contents, s \in Sizes : create_lookup(p, c, s)
    \/ create_hash_fails(p)
    \/ create_dup_save(p)
    \/ create_store(p)
    \/ create_insert(p)
    \/ update_file_references(p)

Delete(p) ==
    \/ \E i \in Ids : destroy_load(p, i)
    \/ delete_decrement(p)
    \/ delete_check_duplicates(p)
    \/ delete_unreferenced_duplicate(p)
    \/ delete_file(p)
    \/ delete_row(p)

Update(p) ==
    \/ \E i \in Ids, s \in Sizes : update_load(p, i, s)
    \/ update_save(p)

\* Concurrent ingests, updates and deletes.
Next == \E p \in Workers : Ingest(p) \/ Delete(p) \/ Update(p)
Spec == Init /\ [][Next]_vars

\* Concurrent ingests and deletes.
ConcNext == \E p \in Workers : Ingest(p) \/ Delete(p)
ConcSpec == Init /\ [][ConcNext]_vars

\* Ingests and deletes, one request at a time (a single worker).
SeqNext == Ingest(1) \/ Delete(1)
SeqSpec == Init /\ [][SeqNext]_vars

\* Ingests, updates and deletes, one request at a time (a single worker).
SeqApiNext == Ingest(1) \/ Delete(1) \/ Update(1)
SeqApiSpec == Init /\ [][SeqApiNext]_vars

\* Ingests and deletes one request at a time, reference counts overwritten
\* from outside, and the recount.
RecountNext ==
    \/ Ingest(1)
    \/ Delete(1)
    \/ \E i \in Ids, n \in Counts : corrupt_reference_count(i, n)
    \/ update_reference_counts(1)
RecountSpec == Init /\ [][RecountNext]_vars

\* Ingests, deletes and File.save of new instances one request at a time,
\* and the maintenance methods.
MaintNext ==
    \/ Ingest(1)
    \/ Delete(1)
    \/ \E c \in Contents, s \in Sizes : save_new_instance(1, c, s)
    \/ \E R \in SUBSET Ids : recheck_duplicates(1, R)
    \/ \E i \in Ids, R \in SUBSET Ids : verify_duplicate_status(1, i, R)
MaintSpec == Init /\ [][MaintNext]_vars

\* Ingests and deletes one request at a time, with a blob store whose calls
\* may fail.
FaultNext ==
    \/ Ingest(1)
    \/ Delete(1)
    \/ create_store_fails(1)
    \/ delete_file_fails(1)
FaultSpec == Init /\ [][FaultNext]_vars

\* Ingests that declare no size, so that size is the length of the upload
\* (views.py 116), and deletes, one request at a time.
ExactIngest(p) ==
    \/ \E c \in Contents : create_lookup(p, c, content_length(c))
    \/ create_hash_fails(p)
    \/ create_dup_save(p)
    \/ create_store(p)
    \/ create_insert(p)
    \/ update_file_references(p)
ExactNext == ExactIngest(1) \/ Delete(1)
ExactSpec == Init /\ [][ExactNext]_vars

\* Ingests and deletes one request at a time, where a request may die between
\* two of its steps, the reference-count increment may fail and the removal
\* of bytes may fail.
CrashNext ==
    \/ Ingest(1)
    \/ Delete(1)
    \/ crash(1)
    \/ update_file_references_fails(1)
    \/ delete_file_fails(1)
CrashSpec == Init /\ [][CrashNext]_vars

TypeOK ==
    /\ DOMAIN files \subseteq Ids
    /\ DOMAIN blobs \subseteq Paths
    /\ nextId \in 1..(MaxFiles + 1)
    /\ nextPath \in 1..(MaxFiles + 1)

\* ---- properties ------------------------------------------------------------

Originals == {i \in DOMAIN files : ~files[i].is_duplicate}

\* C1: with one request at a time, no two non-duplicate rows share a
\* non-empty content_hash: an upload whose digest belongs to a non-duplicate
\* row becomes a duplicate, never a second original.
C1_OriginalsHaveDistinctHashes ==
    \A i, j \in Originals :
        (i # j /\ files[i].content_hash # EmptyHash)
            => files[i].content_hash # files[j].content_hash

\* C1 witness: content already held by an original was uploaded again and
\* became a duplicate of it.
C1_Witness ==
    \E i \in Originals : \E d \in duplicates(i) :
        /\ files[d].is_duplicate
        /\ files[d].content_hash = files[i].content_hash
        /\ pc[1] = "idle"

\* C2: with one request at a time and no crash, after each request every
\* non-duplicate row has reference_count = 1 + number of rows referencing it.
C2_ReferenceCountMatches ==
    pc[1] = "idle" =>
        \A o \in Originals :
            files[o].reference_count = 1 + Cardinality(duplicates(o))

\* C2 witness: an original with two duplicates, between requests.
C2_Witness ==
    /\ pc[1] = "idle"
    /\ \E o \in Originals :
          /\ Cardinality(duplicates(o)) = 2
          /\ files[o].reference_count = 3

\* C3: once concurrent ingests of the same new content have all completed,
\* exactly one of the rows they created is a non-duplicate.
C3_ConcurrentIngestsOneOriginal ==
    AllIdle =>
        \A i, j \in Originals :
            files[i].content_hash = files[j].content_hash => i = j

\* C4: under any interleaving of duplicate ingests and duplicate deletes on
\* one original no reference-count update is lost: once all have completed
\* reference_count = 1 + number of rows referencing the original.
C4_NoLostReferenceUpdate ==
    AllIdle =>
        \A o \in Originals :
            files[o].reference_count = 1 + Cardinality(duplicates(o))

\* C5: in every reachable state, the bytes at an original's storage path are
\* in the blob store while some row has reference_file = that original.
C5_ReferencedBytesKept ==
    \A d \in DOMAIN files :
        files[d].reference_file # NULL =>
            /\ files[d].reference_file \in DOMAIN files
            /\ files[files[d].reference_file].file \in DOMAIN blobs

\* C6: deleting a non-duplicate row that other rows reference removes neither
\* its bytes nor its row: when the delete returns the row exists and its
\* duplicates still reference it.
C6_ReferencedOriginalKept ==
    [][\A p \in Workers :
          LET o == loc[p].target
          IN (/\ pc[p] = "delete_row"
              /\ pc'[p] = "idle"
              /\ o \in Originals
              /\ duplicates(o) # {})
             => /\ o \in DOMAIN files'
                /\ files[o].file \in DOMAIN blobs'
                /\ \A d \in duplicates(o) :
                      d \in DOMAIN files' /\ files'[d].reference_file = o]_vars

\* C7: in every state reachable by ingests and deletes, a row is a duplicate
\* if and only if its reference_file is set.
C7_DuplicateIffReferenceSet ==
    \A i \in DOMAIN files :
        files[i].is_duplicate <=> (files[i].reference_file # NULL)

\* C8: in every reachable state (concurrent ingests, updates and deletes), a
\* reference_file that is set points to an existing non-duplicate row whose
\* own reference_file is null.
C8_NoDuplicateChains ==
    \A i \in DOMAIN files :
        files[i].reference_file # NULL =>
            /\ files[i].reference_file \in DOMAIN files
            /\ ~files[files[i].reference_file].is_duplicate
            /\ files[files[i].reference_file].reference_file = NULL

\* C8 witness: an upload of content that already has an original and a
\* duplicate was linked to the original.
C8_Witness ==
    \E o \in Originals : Cardinality(duplicates(o)) = 2

\* C9 as stated: for every row and every declared size, actual_size = 0 iff
\* the row is a duplicate, and actual_size = size iff it is not.
C9_SizeIffDuplicate ==
    \A i \in DOMAIN files :
        /\ (files[i].actual_size = 0) <=> files[i].is_duplicate
        /\ (files[i].actual_size = files[i].size) <=> ~files[i].is_duplicate

\* C9 amended: in every state reached by (concurrent) ingests and deletes,
\* a duplicate has actual_size = 0 and a non-duplicate has actual_size = size,
\* whatever size was declared; the two "iff" hold for the rows whose size is
\* not 0.
C9_ActualSizeByKind ==
    \A i \in DOMAIN files :
        /\ files[i].is_duplicate => files[i].actual_size = 0
        /\ ~files[i].is_duplicate => files[i].actual_size = files[i].size
        /\ files[i].size # 0 =>
              /\ (files[i].actual_size = 0) <=> files[i].is_duplicate
              /\ (files[i].actual_size = files[i].size) <=> ~files[i].is_duplicate

\* C9 witness: an original declared with size 0, an original and a duplicate
\* declared with another size.
C9_Witness ==
    /\ \E i \in Originals : files[i].size = 0
    /\ \E i \in Originals : files[i].size # 0
    /\ \E d \in DOMAIN files : files[d].is_duplicate /\ files[d].size # 0

\* C10: after any sequence of create, PATCH of size and delete requests,
\* every non-duplicate row has actual_size = size and every duplicate row has
\* actual_size = 0.
C10_SizesAfterApiRequests ==
    pc[1] = "idle" =>
        \A i \in DOMAIN files :
            IF files[i].is_duplicate
            THEN files[i].actual_size = 0
            ELSE files[i].actual_size = files[i].size

\* C11: in every state reached by ingests and deletes, the storage_saved of
\* the stats over all rows (sum of size minus sum of actual_size) is the sum
\* of size over exactly the duplicate rows, and is get_total_storage_saved().
C11_StorageSavedIsDuplicateSize ==
    /\ stats_storage_saved = SumSize({i \in DOMAIN files : files[i].is_duplicate})
    /\ stats_storage_saved = get_total_storage_saved

\* C11 witness: duplicates of two declared sizes and an original with a
\* size that is not 0, so that the three sums are not all 0.
C11_Witness ==
    /\ stats_storage_saved > 0
    /\ \E i \in Originals : files[i].size # 0
    /\ Cardinality({i \in DOMAIN files : files[i].is_duplicate}) = 2

\* The steps of File.delete (after the row was loaded) that worker p is in.
InDelete(p) == pc[p] \in {"delete", "delete_file", "delete_row"}

\* C12: deleting a duplicate whose original has reference_count >= 1 lowers
\* that count by exactly 1 and removes the duplicate's row; it makes no call
\* on the blob store and changes nothing else: the first step writes only the
\* original's count, the second removes only the duplicate's row.
C12_DuplicateDeleteEffect ==
    [][\A p \in Workers :
         (/\ InDelete(p)
          /\ loc[p].rec.is_duplicate
          /\ loc[p].rec.reference_file # NULL
          /\ loc[p].orig.reference_count >= 1)
         => LET d == loc[p].target
                o == loc[p].rec.reference_file
            IN /\ pc[p] # "delete_file"
               /\ blobs' = blobs
               /\ files[d].file \in DOMAIN blobs'
               /\ pc[p] = "delete"
                  => /\ pc'[p] = "delete_row"
                     /\ files[o] = loc[p].orig
                     /\ DOMAIN files' = DOMAIN files
                     /\ files'[o] = [files[o] EXCEPT !.reference_count =
                                         files[o].reference_count - 1]
                     /\ \A j \in DOMAIN files \ {o} : files'[j] = files[j]
               /\ pc[p] = "delete_row"
                  => /\ pc'[p] = "idle"
                     /\ files[o].reference_count = loc[p].orig.reference_count - 1
                     /\ files' = [j \in DOMAIN files \ {d} |-> files[j]]]_vars

\* C12 witness: the count of an original with two duplicates has been lowered
\* from 3 to 2 and the duplicate's row is about to be removed.
C12_Witness ==
    /\ pc[1] = "delete_row"
    /\ loc[1].rec.is_duplicate
    /\ loc[1].rec.reference_file # NULL
    /\ loc[1].orig.reference_count = 3
    /\ files[loc[1].rec.reference_file].reference_count = 2

\* C13: the delete of a non-duplicate that no row references ends with its
\* bytes and its row removed; the delete of a non-duplicate that a duplicate
\* references never touches the blob store, so its bytes stay.
C13_OriginalDeleteBytes ==
    [][\A p \in Workers :
         (InDelete(p) /\ ~loc[p].rec.is_duplicate)
         => LET o == loc[p].target
            IN /\ (duplicates(o) = {} /\ pc'[p] = "idle")
                  => /\ o \notin DOMAIN files'
                     /\ loc[p].rec.file \notin DOMAIN blobs'
               /\ duplicates(o) # {}
                  => /\ blobs' = blobs
                     /\ loc[p].rec.file \in DOMAIN blobs']_vars

\* C13 witness: the row of an original that has a duplicate is about to be
\* removed with its bytes still stored, after an earlier delete of an
\* unreferenced file removed that file's bytes.
C13_Witness ==
    /\ pc[1] = "delete_row"
    /\ ~loc[1].rec.is_duplicate
    /\ duplicates(loc[1].target) # {}
    /\ loc[1].rec.file \in DOMAIN blobs
    /\ \E f \in 1..(nextPath - 1) : f \notin DOMAIN blobs

\* C14: whatever the reference_count values of the non-duplicates were, a run
\* of update_reference_counts with no other request in progress sets each
\* non-duplicate's count to 1 + the number of rows that reference it, changes
\* no other field, no other row and no blob, and a second run changes nothing.
C14_RecountRestoresCounts ==
    [][response' = "recounted"
       => /\ DOMAIN files' = DOMAIN files
          /\ blobs' = blobs
          /\ \A i \in DOMAIN files :
                files'[i] = IF files[i].is_duplicate THEN files[i]
                            ELSE [files[i] EXCEPT !.reference_count =
                                     1 + Cardinality(duplicates(i))]
          /\ recount_loop(files', {i \in DOMAIN files' : ~files'[i].is_duplicate})
                = files']_vars

\* C14 witness: a recount has just run and left an original that has two
\* duplicates with the count 3.
C14_Witness ==
    /\ response = "recounted"
    /\ \E i \in Originals : Cardinality(duplicates(i)) = 2
                            /\ files[i].reference_count = 3

\* C15: the content_hash of a row is never a value other than the digest of
\* the row's stored bytes: an operation that cannot read the bytes leaves the
\* content_hash as it was.
C15_HashIsContentDigest ==
    \A i \in DOMAIN files :
        (files[i].content_hash # EmptyHash /\ files[i].file \in DOMAIN blobs)
            => files[i].content_hash = _calculate_file_hash(blobs[files[i].file])

\* C16: an ingest that fails, because the upload cannot be hashed or because
\* the write of its bytes raises, answers with an error and leaves the rows
\* as they were: no step of an ingest before the INSERT changes a row, the
\* failing step changes none, and a write that stored nothing ends the
\* request with an error.
C16_FailedIngestChangesNoRow ==
    [][\A p \in Workers :
         /\ (pc[p] \in {"idle", "create_dup", "create_store"} /\ response' = "error")
               => (files' = files /\ pc'[p] = "idle")
         /\ (pc[p] = "create_store" /\ blobs' = blobs)
               => (response' = "error" /\ pc'[p] = "idle" /\ files' = files)
         /\ (pc[p] = "idle" /\ pc'[p] \in {"create_dup", "create_store"})
               => files' = files]_vars

\* C16 witness: an ingest has just failed in a store that holds an original
\* with a duplicate, whose reference_count is 2.
C16_Witness ==
    /\ response = "error"
    /\ \E o \in Originals : files[o].reference_count = 2 /\ duplicates(o) # {}

\* C17: when the lookup of an ingest finds more than one non-duplicate row with
\* the upload's digest, the reference_file of the duplicate it builds is the
\* one with the earliest uploaded_at.
C17_ReferenceIsEarliestOriginal ==
    [][\A p \in Workers :
         (/\ pc[p] = "idle"
          /\ pc'[p] = "create_dup"
          /\ Cardinality(NonDuplicatesWithHash(loc'[p].hash)) > 1)
         => \A j \in NonDuplicatesWithHash(loc'[p].hash) :
               files[loc'[p].rec.reference_file].uploaded_at <= files[j].uploaded_at]_vars

\* C18: between sequential ingests and deletes whose declared sizes are the
\* content lengths, the sum of actual_size over all rows is the total number
\* of bytes of the blobs in the blob store.
C18_ActualSizeIsStoredBytes ==
    AllIdle => SumActualSize(DOMAIN files) = SumBlobBytes(DOMAIN blobs)

\* C19: a crash inside the delete of a non-duplicate that has no duplicates
\* leaves no row whose storage path names bytes that are missing from the
\* blob store.
C19_CrashLeavesNoDanglingRow ==
    [][\A p \in Workers :
         (/\ InDelete(p)
          /\ response' = "crash"
          /\ ~loc[p].rec.is_duplicate
          /\ duplicates(loc[p].target) = {})
         => \A i \in DOMAIN files' : files'[i].file \in DOMAIN blobs']_vars

\* C20: with crashes between steps and swallowed increment failures, the
\* reference_count of a non-duplicate never exceeds 1 + the number of rows
\* that reference it.
C20_NeverOvercount ==
    \A o \in Originals :
        files[o].reference_count <= 1 + Cardinality(duplicates(o))

\* C20 witness: between requests, an original with duplicates whose count
\* is below 1 + their number: a crash or a failed increment has produced an
\* undercount.
C20_Witness ==
    /\ AllIdle
    /\ \E o \in Originals :
          /\ duplicates(o) # {}
          /\ files[o].reference_count < 1 + Cardinality(duplicates(o))

\* C21: reference_count is never negative, and the delete of a duplicate
\* whose original's count is already 0 writes no count (it stays 0), raises no
\* error and removes the duplicate's row.
C21_CountFloorsAtZero ==
    [][/\ \A i \in DOMAIN files : files[i].reference_count >= 0
       /\ \A i \in DOMAIN files' : files'[i].reference_count >= 0
       /\ \A p \in Workers :
            (/\ InDelete(p)
             /\ loc[p].rec.is_duplicate
             /\ loc[p].rec.reference_file # NULL
             /\ loc[p].orig.reference_count = 0
             /\ response' # "crash")
            => LET d == loc[p].target
                   o == loc[p].rec.reference_file
               IN /\ response' # "error"
                  /\ pc[p] = "delete"
                     => (files' = files /\ pc'[p] = "delete_row")
                  /\ pc[p] = "delete_row"
                     => /\ response' = "ok"
                        /\ files' = [j \in DOMAIN files \ {d} |-> files[j]]
                        /\ o \in DOMAIN files' => files'[o].reference_count = 0]_vars

\* C21 witness: the row of a duplicate is about to be removed in a delete
\* that found its original's count at 0 and left it there.
C21_Witness ==
    /\ pc[1] = "delete_row"
    /\ loc[1].rec.is_duplicate
    /\ loc[1].rec.reference_file # NULL
    /\ loc[1].orig.reference_count = 0
    /\ loc[1].rec.reference_file \in DOMAIN files
    /\ files[loc[1].rec.reference_file].reference_count = 0

\* C22: in the delete of a non-duplicate that no row references, a blob-store
\* call that fails, or bytes that are already absent, do not abort the
\* delete: the storage step goes on to the row removal without touching a
\* row, the row is removed and the answer is not an error.
C22_StorageFailureIsNotFatal ==
    [][\A p \in Workers :
         (/\ InDelete(p)
          /\ ~loc[p].rec.is_duplicate
          /\ duplicates(loc[p].target) = {}
          /\ response' # "crash")
         => /\ response' # "error"
            /\ pc[p] = "delete" => (pc'[p] = "delete_file" /\ files' = files)
            /\ pc[p] = "delete_file" => (pc'[p] = "delete_row" /\ files' = files)
            /\ pc[p] = "delete_row"
               => /\ response' = "ok"
                  /\ loc[p].target \notin DOMAIN files'
                  /\ blobs' = blobs]_vars

\* C22 witness: the storage step of such a delete is over with the bytes
\* still stored (the call failed), the row is about to be removed, and the
\* bytes of another row are already absent.
C22_Witness ==
    /\ pc[1] = "delete_row"
    /\ ~loc[1].rec.is_duplicate
    /\ duplicates(loc[1].target) = {}
    /\ loc[1].rec.file \in DOMAIN blobs
    /\ \E i \in DOMAIN files : files[i].file \notin DOMAIN blobs

\* C23: an ingest whose digest belongs to a non-duplicate row takes the
\* duplicate branch, none of its steps adds or removes a blob or draws a
\* storage name, and the row it inserts has the storage path of the row it
\* found and the size the request declared.
C23_DuplicateSharesPath ==
    [][\A p \in Workers :
         /\ (pc[p] = "idle" /\ pc'[p] = "create_store")
               => NonDuplicatesWithHash(loc'[p].hash) = {}
         /\ (pc[p] = "idle" /\ pc'[p] = "create_dup")
               => /\ NonDuplicatesWithHash(loc'[p].hash) # {}
                  /\ loc'[p].existing \in NonDuplicatesWithHash(loc'[p].hash)
                  /\ blobs' = blobs /\ nextPath' = nextPath /\ files' = files
         /\ (pc[p] = "create_dup" /\ pc'[p] = "signal")
               => /\ blobs' = blobs /\ nextPath' = nextPath
                  /\ DOMAIN files' = DOMAIN files \cup {nextId}
                  /\ files'[nextId].file = files[loc[p].existing].file
                  /\ files'[nextId].size = loc[p].size
                  /\ files'[nextId].reference_file = loc[p].existing
         /\ (pc[p] = "signal" /\ pc'[p] = "idle")
               => (blobs' = blobs /\ nextPath' = nextPath)]_vars

\* C23 witness: a duplicate declared with size 1 has just been inserted for
\* an original declared with size 0; it has the original's storage path and
\* the store holds the one blob.
C23_Witness ==
    /\ pc[1] = "signal"
    /\ (nextId - 1) \in DOMAIN files
    /\ LET d == files[nextId - 1]
       IN /\ d.is_duplicate
          /\ d.reference_file \in DOMAIN files
          /\ d.file = files[d.reference_file].file
          /\ d.size = 1
          /\ files[d.reference_file].size = 0
    /\ Cardinality(DOMAIN blobs) = 1

\* C24: File.save() of a newly built instance that is not marked duplicate
\* checks for a duplicate by content: with a non-duplicate row of the same
\* digest present, the row is stored as a duplicate of such a row with
\* actual_size 0; otherwise it is stored as a non-duplicate with actual_size
\* equal to its size.
C24_SaveChecksForDuplicate ==
    [][\A p \in Workers :
         (/\ pc[p] = "create_insert"
          /\ loc[p].rec.content_hash = EmptyHash
          /\ response' = "ok")
         => LET h == _calculate_file_hash(loc[p].content)
                r == files'[nextId]
            IN IF NonDuplicatesWithHash(h) # {}
               THEN /\ r.is_duplicate
                    /\ r.reference_file \in NonDuplicatesWithHash(h)
                    /\ r.actual_size = 0
               ELSE /\ ~r.is_duplicate
                    /\ r.actual_size = r.size]_vars

\* C25: between sequential ingests and deletes, every blob in the blob store
\* is the storage path of at least one row: no bytes outlive the last row
\* that points at them.
C25_NoLeakedBlob ==
    AllIdle => \A f \in DOMAIN blobs : \E i \in DOMAIN files : files[i].file = f

====
